---- MODULE Spec2Model ----
(***************************************************************************)
(* Model of the crop suitability engine of api/index.py: the environment   *)
(* simulator (mock_env_from_polygon), the criterion scorer                 *)
(* (_deterministic_score), the variability layer (score_row, _choose_trend,*)
(* _gen_advice_by_band) and the recommendation builder                     *)
(* (build_recommendations), as called by the POST handler index().         *)
(*                                                                         *)
(* Conventions of the model                                                *)
(*  - A Python value read from a crop row is a record [t, n, s]: t is the  *)
(*    kind ("none" for a missing key, "nan" for an empty table cell,       *)
(*    "num", "str"), n the number, s the text.                             *)
(*  - Real-valued quantities of an environment profile are fixed-point     *)
(*    numbers counted in 1/Grid units, because rng.random() is modelled as *)
(*    k/Grid for k in 0..Grid-1.  Row bounds are whole numbers and are     *)
(*    multiplied by Grid before they are compared.                         *)
(*  - The Thai text of the source is written with ASCII labels: soil types *)
(*    "loam", "sandy_loam", "clay", "sand"; the Thai column aliases are    *)
(*    the fields th_*; tips and trend labels are numbered.                 *)
(*  - random.Random(seed) (a Mersenne Twister) is abstracted by a small    *)
(*    deterministic generator: what matters is that its output is a        *)
(*    function of the seed and of the number of draws made so far.         *)
(*  - hash(str) is abstracted by a keyed function of the text and of the   *)
(*    per-process salt (PYTHONHASHSEED); hash("") is 0 in every process.   *)
(***************************************************************************)
EXTENDS Integers, Sequences, FiniteSets, TLC

VARIABLES salt, CROP_DB, request, seen, call

vars == <<salt, CROP_DB, request, seen, call>>

----------------------------------------------------------------------------
(* Bounds *)

\* rng.random() takes the values k/Grid, k in 0..Grid-1
Grid == 20
\* seed = hash(...) & (2^SeedBits - 1); the source keeps 32 bits
SeedBits == 2
\* the salts 0..MaxSalt a process may start with
MaxSalt == 1
\* rows of a loaded crop table
MaxRows == 3

----------------------------------------------------------------------------
(* Python values *)

None == [t |-> "none", n |-> 0, s |-> ""]
NaN == [t |-> "nan", n |-> 0, s |-> ""]
Num(x) == [t |-> "num", n |-> x, s |-> ""]
Txt(x) == [t |-> "str", n |-> 0, s |-> x]

\* bool(v): None, 0 and "" are false; NaN is true
Truthy(v) ==
  CASE v.t = "none" -> FALSE
    [] v.t = "nan" -> TRUE
    [] v.t = "num" -> v.n # 0
    [] OTHER -> v.s # ""

\* a or b
PyOr(a, b) == IF Truthy(a) THEN a ELSE b

\* pd.notna(v)
notna(v) == v.t \notin {"none", "nan"}

\* str(v)
Str(v) ==
  CASE v.t = "none" -> "None"
    [] v.t = "nan" -> "nan"
    [] v.t = "num" -> ToString(v.n)
    [] OTHER -> v.s

\* s.strip() on the texts of the model: only the padded ones change
Strip(s) ==
  CASE s = " loam " -> "loam"
    [] s = " sand " -> "sand"
    [] s = "  " -> ""
    [] OTHER -> s

\* f"{x:.0f}" of the fixed-point number x/Grid: nearest integer, ties to even
Round0(x) ==
  LET q == x \div Grid
      r == x % Grid
  IN  IF 2 * r < Grid THEN q
      ELSE IF 2 * r > Grid THEN q + 1
      ELSE IF q % 2 = 0 THEN q ELSE q + 1

----------------------------------------------------------------------------
(* Seeds, hash and the random generator *)

RECURSIVE Pow2(_)
Pow2(k) == IF k = 0 THEN 1 ELSE 2 * Pow2(k - 1)

\* the mask 0xFFFFFFFF, narrowed to SeedBits bits
SeedMask == Pow2(SeedBits) - 1

\* a & SeedMask for a >= 0
Mask(a) == a % (SeedMask + 1)

RECURSIVE Xor(_, _)
\* a ^ b for a, b >= 0
Xor(a, b) ==
  IF a = 0 THEN b
  ELSE IF b = 0 THEN a
  ELSE 2 * Xor(a \div 2, b \div 2) + (((a % 2) + (b % 2)) % 2)

\* the bytes of a text, as one number (distinct texts, distinct numbers)
TextCode(s) ==
  CASE s = "Unknown Crop" -> 11
    [] s = "nan" -> 23
    [] s = "rice" -> 34
    [] s = "cassava" -> 47
    [] s = "sugarcane" -> 58
    [] s = "maize" -> 69
    [] s = "rubber" -> 72
    [] s = "not json" -> 85
    [] s = "polygonA" -> 96
    [] s = "polygonB" -> 109
    [] OTHER -> 5

\* hash(s): keyed by the salt of the process, except that hash("") = 0
Hash(k, s) == IF s = "" THEN 0 ELSE TextCode(s) * (2 * k + 1) + 7 * k

RECURSIVE Twist(_, _)
\* the generator's state after i draws from random.Random(seed)
Twist(seed, i) ==
  IF i = 0 THEN (seed * 37 + 11) % 256
  ELSE (Twist(seed, i - 1) * 13 + 7) % 256

\* rng.random() as the i-th draw: the numerator k of k/Grid
random(seed, i) == (Twist(seed, i) \div 3) % Grid

\* rng.choice(seq) as the i-th draw
choice(seq, seed, i) == seq[((Twist(seed, i) \div 5) % Len(seq)) + 1]

----------------------------------------------------------------------------
(* Fixed vocabularies *)

soil_types == <<"loam", "sandy_loam", "clay", "sand">>

POSITIVE_TIPS == <<"positive_1", "positive_2", "positive_3", "positive_4", "positive_5">>

IMPROVEMENT_TIPS == <<"improve_1", "improve_2", "improve_3", "improve_4", "improve_5">>

\* the weighted pool of _choose_trend: 2 stable, 3 rising, 2 rising slightly,
\* 2 volatile, 1 falling slightly
trend_pool ==
  <<"stable", "stable", "rising", "rising", "rising", "rising_slightly",
    "rising_slightly", "volatile", "volatile", "falling_slightly">>

Range(f) == {f[i] : i \in DOMAIN f}

----------------------------------------------------------------------------
(* Environment simulator *)

\* mock_env_from_polygon under the hash salt k; geojson_str is a Python value
mock_env_from_polygon(k, geojson_str) ==
  LET seed == Mask(Hash(k, Str(PyOr(geojson_str, Txt("")))))
  IN  [soil_type |-> choice(soil_types, seed, 0),
       avg_rainfall_mm |-> 900 * Grid + random(seed, 1) * 1600,
       avg_temp_celsius |-> 22 * Grid + random(seed, 2) * 12,
       slope_degree |-> random(seed, 3) * 15,
       seed |-> seed]

----------------------------------------------------------------------------
(* Criterion scorer *)

\* one failure reason: the criterion, the observed value as it is printed,
\* and the requirement values that are printed with it
Reason(c, o, lo, hi) == [criterion |-> c, observed |-> o, lo |-> lo, hi |-> hi]

\* the requirement values read at the top of _deterministic_score
wanted_soil(row) == PyOr(PyOr(row.soil_type, row.th_soil_type), Txt(""))
min_rain(row) == PyOr(PyOr(row.min_rain_mm, row.th_min_rain), None)
max_rain(row) == PyOr(PyOr(row.max_rain_mm, row.th_max_rain), None)
min_temp(row) == PyOr(PyOr(row.min_temp_c, row.th_min_temp), None)
max_temp(row) == PyOr(PyOr(row.max_temp_c, row.th_max_temp), None)
slope_max(row) == PyOr(PyOr(row.slope_max_deg, row.th_slope_max), None)

\* float(v) in 1/Grid units
float(v) == v.n * Grid

\* the soil block: acc is the pair of score and reasons so far
ScoreSoil(acc, row, env) ==
  IF Truthy(wanted_soil(row))
  THEN IF Strip(Str(Txt(env.soil_type))) = Strip(Str(wanted_soil(row)))
       THEN [acc EXCEPT !.score = @ + 1]
       ELSE [acc EXCEPT !.reasons =
               Append(@, Reason("soil", Txt(env.soil_type), wanted_soil(row), None))]
  ELSE [acc EXCEPT !.score = @ + 1]

\* ScoreRain with the rainfall weight mistaken for 3
ScoreRain_weight3(acc, row, env) ==
  LET rain == env.avg_rainfall_mm
  IN  IF notna(min_rain(row)) /\ notna(max_rain(row))
      THEN IF float(min_rain(row)) <= rain /\ rain <= float(max_rain(row))
           THEN [acc EXCEPT !.score = @ + 3]
           ELSE [acc EXCEPT !.reasons =
                   Append(@, Reason("rain", Num(Round0(rain)), min_rain(row), max_rain(row)))]
      ELSE [acc EXCEPT !.score = @ + 3]

\* the rain block
ScoreRain(acc, row, env) ==
  LET rain == env.avg_rainfall_mm
  IN  IF notna(min_rain(row)) /\ notna(max_rain(row))
      THEN IF float(min_rain(row)) <= rain /\ rain <= float(max_rain(row))
           THEN [acc EXCEPT !.score = @ + 2]
           ELSE [acc EXCEPT !.reasons =
                   Append(@, Reason("rain", Num(Round0(rain)), min_rain(row), max_rain(row)))]
      ELSE [acc EXCEPT !.score = @ + 2]

\* ScoreTemp that withholds the weight without recording a reason
ScoreTemp_silent(acc, row, env) ==
  LET temp == env.avg_temp_celsius
  IN  IF notna(min_temp(row)) /\ notna(max_temp(row))
      THEN IF float(min_temp(row)) <= temp /\ temp <= float(max_temp(row))
           THEN [acc EXCEPT !.score = @ + 1]
           ELSE acc
      ELSE [acc EXCEPT !.score = @ + 1]

\* the temperature block
ScoreTemp(acc, row, env) ==
  LET temp == env.avg_temp_celsius
  IN  IF notna(min_temp(row)) /\ notna(max_temp(row))
      THEN IF float(min_temp(row)) <= temp /\ temp <= float(max_temp(row))
           THEN [acc EXCEPT !.score = @ + 1]
           ELSE [acc EXCEPT !.reasons =
                   Append(@, Reason("temp", Num(Round0(temp)), min_temp(row), max_temp(row)))]
      ELSE [acc EXCEPT !.score = @ + 1]

\* the slope block
ScoreSlope(acc, row, env) ==
  LET slope == env.slope_degree
  IN  IF notna(slope_max(row))
      THEN IF slope <= float(slope_max(row))
           THEN [acc EXCEPT !.score = @ + 1]
           ELSE [acc EXCEPT !.reasons =
                   Append(@, Reason("slope", Num(Round0(slope)), None, slope_max(row)))]
      ELSE [acc EXCEPT !.score = @ + 1]

\* _deterministic_score: the four blocks in order, from score 0 and no reasons
_deterministic_score(row, env) ==
  ScoreSlope(ScoreTemp(ScoreRain(ScoreSoil([score |-> 0, reasons |-> <<>>],
                                           row, env), row, env), row, env), row, env)

----------------------------------------------------------------------------
(* Variability layer *)

max(a, b) == IF a >= b THEN a ELSE b
min(a, b) == IF a <= b THEN a ELSE b

RECURSIVE SumTo(_, _)
\* weights[1] + ... + weights[j]
SumTo(weights, j) == IF j = 0 THEN 0 ELSE SumTo(weights, j - 1) + weights[j]

\* rng.choices(population, weights=weights, k=1)[0] as the i-th draw:
\* bisect of random() * total in the cumulative weights, the last one left out
choices(population, weights, seed, i) ==
  LET n == Len(population)
      total == SumTo(weights, n)
      below == {j \in 1..(n - 1) : SumTo(weights, j) * Grid <= random(seed, i) * total}
  IN  population[Cardinality(below) + 1]

\* existing.strip() raises AttributeError unless existing is a text
TrendRaises(existing) == Truthy(existing) /\ existing.t # "str"

\* _choose_trend from the i-th draw on: the label and the number of the next draw
_choose_trend(existing, seed, i) ==
  IF ~Truthy(existing) \/ Strip(existing.s) = ""
  THEN [label |-> choice(trend_pool, seed, i), next |-> i + 1]
  ELSE IF random(seed, i) * 10 < 6 * Grid
       THEN [label |-> choice(trend_pool, seed, i + 1), next |-> i + 2]
       ELSE [label |-> Str(existing), next |-> i + 1]

\* an advice text, by its parts: the band, the reasons or the substituted tip
\* that were joined, the tip that was drawn, the context fact of the high band
Advice(band, picked, tip, extra) ==
  [band |-> band, picked |-> picked, tip |-> tip, extra |-> extra]

\* _gen_advice_by_band from the i-th draw on
_gen_advice_by_band(env, reasons, score, seed, i) ==
  IF score >= 5
  THEN LET base == choice(POSITIVE_TIPS, seed, i)
           extra == choice(<<Reason("rain", Num(Round0(env.avg_rainfall_mm)), None, None),
                             Reason("temp", Num(Round0(env.avg_temp_celsius)), None, None),
                             Reason("slope", Num(Round0(env.slope_degree)), None, None),
                             Reason("soil", Txt(env.soil_type), None, None)>>, seed, i + 1)
       IN  Advice("high", <<>>, base, extra)
  ELSE IF 3 <= score /\ score <= 4
  THEN Advice("mid", <<>>, choice(POSITIVE_TIPS, seed, i), Reason("none", None, None, None))
  ELSE LET substitute == reasons = <<>>
           picked == IF substitute
                     THEN <<Reason("tip", Txt(choice(IMPROVEMENT_TIPS, seed, i)), None, None)>>
                     ELSE reasons
           improve == choice(IMPROVEMENT_TIPS, seed, IF substitute THEN i + 1 ELSE i)
       IN  Advice("low", picked, improve, Reason("none", None, None, None))

\* candidates without the clamps to 0 and 5
candidates_unclamped(base_score) ==
  <<base_score - 2, base_score - 1, base_score, base_score + 1>>

\* candidates whose highest entry is base + 2
candidates_wide(base_score) ==
  <<max(0, base_score - 2), max(0, base_score - 1), base_score, min(5, base_score + 2)>>

\* candidates whose lowest entry is base - 3
candidates_deep(base_score) ==
  <<max(0, base_score - 3), max(0, base_score - 1), base_score, min(5, base_score + 1)>>

\* the jitter candidates around the base score
candidates(base_score) ==
  <<max(0, base_score - 2), max(0, base_score - 1), base_score, min(5, base_score + 1)>>

\* the jitter weights
weights == <<1, 3, 4, 2>>

\* the crop name read by score_row
crop_name(row) == PyOr(PyOr(PyOr(row.crop_name, row.name), row.th_name), Txt("Unknown Crop"))

\* the trend read by score_row
trend_raw(row) == PyOr(PyOr(PyOr(row.market_trend, row.trend), row.th_trend), None)

\* the seed of score_row's generator under the hash salt k
local_seed(k, row, env) == Mask(Xor(env.seed, Mask(Hash(k, Str(crop_name(row))))))

NoRecord ==
  [crop_name |-> "", market_trend |-> "", suitability_score |-> 0, max_score |-> 0,
   reasons_for_low_score |-> <<>>,
   advice |-> Advice("none", <<>>, "", Reason("none", None, None, None))]

\* score_row under the hash salt k: its locals and the record it returns, or
\* raised = TRUE when _choose_trend raises
score_row(k, row, env) ==
  LET seed == local_seed(k, row, env)
      det == _deterministic_score(row, env)
      base_score == det.score
      reasons == det.reasons
      final_score == choices(candidates(base_score), weights, seed, 0)
  IN  IF TrendRaises(trend_raw(row))
      THEN [raised |-> TRUE, base_score |-> base_score, reasons |-> reasons,
            final_score |-> final_score, record |-> NoRecord]
      ELSE LET trend == _choose_trend(trend_raw(row), seed, 1)
               advice == _gen_advice_by_band(env, reasons, final_score, seed, trend.next)
           IN  [raised |-> FALSE, base_score |-> base_score, reasons |-> reasons,
                final_score |-> final_score,
                record |-> [crop_name |-> Str(crop_name(row)),
                            market_trend |-> trend.label,
                            suitability_score |-> final_score,
                            max_score |-> 5,
                            reasons_for_low_score |-> reasons,
                            advice |-> advice]]

----------------------------------------------------------------------------
(* Crop rows *)

\* a row with the English columns only
Row(name, soil, rain, temp, slope, trend) ==
  [crop_name |-> name, name |-> None, th_name |-> None,
   soil_type |-> soil, th_soil_type |-> None,
   min_rain_mm |-> rain[1], th_min_rain |-> None,
   max_rain_mm |-> rain[2], th_max_rain |-> None,
   min_temp_c |-> temp[1], th_min_temp |-> None,
   max_temp_c |-> temp[2], th_max_temp |-> None,
   slope_max_deg |-> slope, th_slope_max |-> None,
   market_trend |-> trend, trend |-> None, th_trend |-> None]

\* the built-in crop set of build_recommendations
FallbackRows ==
  <<Row(Txt("rice"), Txt("loam"), <<Num(1200), Num(2000)>>, <<Num(20), Num(35)>>, Num(5), None),
    Row(Txt("cassava"), Txt("sandy_loam"), <<Num(1000), Num(1500)>>, <<Num(22), Num(35)>>, Num(12), None),
    Row(Txt("sugarcane"), Txt("loam"), <<Num(1100), Num(1800)>>, <<Num(23), Num(34)>>, Num(10), None),
    Row(Txt("maize"), Txt("sandy_loam"), <<Num(1000), Num(1800)>>, <<Num(20), Num(35)>>, Num(10), None),
    Row(Txt("rubber"), Txt("loam"), <<Num(1600), Num(2500)>>, <<Num(23), Num(34)>>, Num(12), None)>>

----------------------------------------------------------------------------
(* Recommendation builder *)

RECURSIVE InsertDesc_before(_, _)
\* InsertDesc that puts r before the records of equal score
InsertDesc_before(sorted, r) ==
  IF sorted = <<>> THEN <<r>>
  ELSE IF Head(sorted).suitability_score > r.suitability_score
       THEN <<Head(sorted)>> \o InsertDesc_before(Tail(sorted), r)
       ELSE <<r>> \o sorted

RECURSIVE InsertDesc(_, _)
\* r put after every record of the sorted list whose score is not smaller
InsertDesc(sorted, r) ==
  IF sorted = <<>> THEN <<r>>
  ELSE IF Head(sorted).suitability_score >= r.suitability_score
       THEN <<Head(sorted)>> \o InsertDesc(Tail(sorted), r)
       ELSE <<r>> \o sorted

RECURSIVE SortDesc(_)
\* scored.sort(key=lambda d: d["suitability_score"], reverse=True): a stable sort
SortDesc(scored) ==
  IF scored = <<>> THEN <<>>
  ELSE InsertDesc(SortDesc(SubSeq(scored, 1, Len(scored) - 1)), scored[Len(scored)])

\* the rows build_recommendations scores for the table db
RowsOf(db) == IF db = <<>> THEN FallbackRows ELSE db

\* build_recommendations under the hash salt k: the list before the sort and
\* the list returned, or raised = TRUE when score_row raises on some row
build_recommendations(k, db, env) ==
  LET rows == RowsOf(db)
      outs == [i \in 1..Len(rows) |-> score_row(k, rows[i], env)]
      scored == [i \in 1..Len(rows) |-> outs[i].record]
  IN  IF \E i \in 1..Len(rows) : outs[i].raised
      THEN [raised |-> TRUE, scored |-> <<>>, recs |-> <<>>]
      ELSE [raised |-> FALSE, scored |-> scored, recs |-> SortDesc(scored)]

----------------------------------------------------------------------------
(* Inputs *)

Salts == 0..MaxSalt

\* the polygon_coords of a POST: absent, empty, malformed, a polygon
Descriptors == {None, Txt(""), Txt("not json"), Txt("polygonA")}

SeqsUpTo(S, n) == UNION {[1..m -> S] : m \in 0..n}

\* rows of a table without a market_trend column; an empty cell is NaN
PlainTableRows ==
  {FallbackRows[1],
   Row(Txt("maize"), NaN, <<Num(1000), Num(1800)>>, <<NaN, NaN>>, Num(0), None),
   Row(Txt("cassava"), Txt("sand"), <<NaN, NaN>>, <<Num(22), Num(35)>>, Num(12), None)}

\* rows of a table with a market_trend column
TrendTableRows ==
  {Row(Txt("rice"), Txt("loam"), <<Num(1200), Num(2000)>>, <<Num(20), Num(35)>>, Num(5), Txt("volatile")),
   Row(Txt("sugarcane"), Txt("clay"), <<Num(1100), Num(1800)>>, <<Num(23), Num(34)>>, NaN, Txt("stable")),
   Row(Txt("rubber"), Txt("loam"), <<Num(1600), Num(2500)>>, <<Num(23), Num(34)>>, Num(12), NaN)}

\* what _load_crop_database can return: the empty table when the file is
\* missing or unreadable, else the rows of the file
Tables == SeqsUpTo(PlainTableRows, MaxRows) \cup SeqsUpTo(TrendTableRows, MaxRows)

\* inputs of a direct call of score_row
Names == {None, Txt("rice")}
SoilReqs == {None, NaN, Txt("loam"), Txt(" sand ")}
RainReqs == {<<None, None>>, <<Num(1200), Num(2000)>>, <<Num(1300), Num(1900)>>, <<Num(0), Num(1000)>>}
TempReqs == {<<NaN, NaN>>, <<Num(22), Num(30)>>, <<Num(23), Num(29)>>}
SlopeReqs == {None, Num(0), Num(5)}

CoreRows ==
  {Row(n, so, ra, te, sl, None) :
     n \in Names, so \in SoilReqs, ra \in RainReqs, te \in TempReqs, sl \in SlopeReqs}

\* rows that use the Thai aliases, a trend, a blank text or half a range
OtherRows ==
  {[Row(None, None, <<None, None>>, <<None, None>>, None, None) EXCEPT
      !.th_name = Txt("cassava"), !.th_soil_type = Txt("sand"),
      !.th_min_rain = Num(1300), !.th_max_rain = Num(1900),
      !.th_min_temp = Num(23), !.th_max_temp = Num(29),
      !.th_slope_max = Num(5), !.th_trend = Txt("stable")],
   [Row(Txt("rice"), Txt(""), <<Num(1300), NaN>>, <<None, Num(29)>>, Num(0), None) EXCEPT
      !.th_slope_max = Num(5), !.th_soil_type = Txt("loam")],
   Row(NaN, Txt("clay"), <<Num(1300), Num(1900)>>, <<Num(23), Num(29)>>, Num(5), Txt("volatile")),
   Row(Txt("rice"), Txt("loam"), <<Num(1200), Num(2000)>>, <<Num(22), Num(30)>>, NaN, Txt("  ")),
   Row(Txt("rice"), NaN, <<Num(1300), Num(1900)>>, <<Num(23), Num(29)>>, Num(5), NaN),
   Row(Txt("maize"), Txt("loam"), <<NaN, NaN>>, <<NaN, NaN>>, NaN, Txt("stable"))}

ScoreRows == CoreRows \cup OtherRows

\* environment profiles for a direct call: values inside the simulator's ranges
Envs ==
  {[soil_type |-> so, avg_rainfall_mm |-> ra * Grid, avg_temp_celsius |-> te * Grid,
    slope_degree |-> sl * Grid, seed |-> sd] :
     so \in {"loam", "sand"}, ra \in {1200, 2000}, te \in {22, 30}, sl \in {5, 6},
     sd \in 0..SeedMask}

----------------------------------------------------------------------------
(* The service: a process that serves POST requests *)

\* the profile of the GET page, before any polygon is posted
NoEnv ==
  [soil_type |-> "", avg_rainfall_mm |-> 0, avg_temp_celsius |-> 0, slope_degree |-> 0,
   seed |-> 0]

\* request: the last POST served by this process, with its profile and the
\* outcome of build_recommendations
NoRequest ==
  [polygon |-> None, served |-> FALSE, env |-> NoEnv,
   built |-> [raised |-> FALSE, scored |-> <<>>, recs |-> <<>>]]

\* seen: the descriptor and the profile of the first POST ever served, kept
\* across restarts
NoneSeen == [any |-> FALSE, polygon |-> None, env |-> NoEnv]

NoCall ==
  [pc |-> "none", row |-> Row(None, None, <<None, None>>, <<None, None>>, None, None),
   env |-> NoEnv,
   out |-> [raised |-> FALSE, base_score |-> 0, reasons |-> <<>>, final_score |-> 0,
            record |-> NoRecord]]

\* process start: a hash salt is drawn and the crop table is loaded
Init ==
  /\ salt \in Salts
  /\ CROP_DB \in Tables
  /\ request = NoRequest
  /\ seen = NoneSeen
  /\ call = NoCall

\* index() on a POST with the descriptor polygon
Index(polygon) ==
  LET env == mock_env_from_polygon(salt, polygon)
  IN  /\ request' = [polygon |-> polygon, served |-> TRUE, env |-> env,
                     built |-> build_recommendations(salt, CROP_DB, env)]
      /\ seen' = IF seen.any THEN seen
                 ELSE [any |-> TRUE, polygon |-> polygon, env |-> env]
      /\ UNCHANGED <<salt, CROP_DB, call>>

\* the process is stopped and started again on the same crop table file
Restart ==
  /\ salt' \in Salts
  /\ request' = NoRequest
  /\ UNCHANGED <<CROP_DB, seen, call>>

Next ==
  \/ \E polygon \in Descriptors : Index(polygon)
  \/ Restart

Spec == Init /\ [][Next]_vars

----------------------------------------------------------------------------
(* score_row called on its own, on a row and a profile drawn at the start *)

ScoreInit ==
  /\ salt \in Salts
  /\ CROP_DB = <<>>
  /\ request = NoRequest
  /\ seen = NoneSeen
  /\ call \in {[NoCall EXCEPT !.pc = "start", !.row = r, !.env = e] :
                 r \in ScoreRows, e \in Envs}

ScoreRow ==
  /\ call.pc = "start"
  /\ call' = [call EXCEPT !.pc = "done", !.out = score_row(salt, call.row, call.env)]
  /\ UNCHANGED <<salt, CROP_DB, request, seen>>

ScoreNext == ScoreRow

ScoreSpec == ScoreInit /\ [][ScoreNext]_vars

----------------------------------------------------------------------------
(* Vocabulary of the properties *)

\* score_row has returned a record
Returned == call.pc = "done" /\ ~call.out.raised

\* _deterministic_score has returned (score_row may still raise after it)
Scored == call.pc = "done"

\* the criteria named in the reasons of the call
Failed == {call.out.reasons[i].criterion : i \in DOMAIN call.out.reasons}

\* the draw that picks the jitter candidate, as a number of tenths of Grid
JitterDraw == random(local_seed(salt, call.row, call.env), 0) * 10

\* the row's own value of a requirement: the English column, else the Thai one
Field(en, th) ==
  IF call.row[en].t \in {"none", "nan"} THEN call.row[th] ELSE call.row[en]

\* a requirement value is left unset: no such key, or an empty cell
Unset(v) == v.t \in {"none", "nan"}

\* the row has no value under any Thai alias
EnglishOnly ==
  \A th \in {"th_name", "th_soil_type", "th_min_rain", "th_max_rain", "th_min_temp",
             "th_max_temp", "th_slope_max", "th_trend"} : call.row[th] = None

\* POST has returned a ranked list
Ranked == request.served /\ ~request.built.raised

ScoreIs(v, seq) ==
  LET Same(r) == r.suitability_score = v IN SelectSeq(seq, Same)

----------------------------------------------------------------------------
(* Properties *)

\* C1: every record returned by score_row has an integer suitability_score
\* with 0 <= suitability_score <= max_score = 5, whichever candidate is drawn
C1_ScoreWithinBounds ==
  Returned =>
    /\ call.out.record.suitability_score \in 0..5
    /\ call.out.record.max_score = 5
    /\ call.out.record.suitability_score <= call.out.record.max_score

\* C1 witness: the lowest candidate of a base score of 0 is drawn (base - 2,
\* clamped to 0)
C1_Witness ==
  /\ Returned
  /\ call.out.base_score = 0
  /\ JitterDraw < Grid
  /\ call.out.record.suitability_score = 0

\* C1 second witness: the highest candidate of a base score of 5 is drawn
\* (base + 1, clamped to 5)
C1_Witness_Top ==
  /\ Returned
  /\ call.out.base_score = 5
  /\ JitterDraw >= 8 * Grid
  /\ call.out.record.suitability_score = 5

\* C2: the base score is an integer in [0,5], the sum of the weights (soil 1,
\* rainfall 2, temperature 1, slope 1) of the criteria that passed
C2_BaseScoreIsWeightSum ==
  Scored =>
    /\ call.out.base_score \in 0..5
    /\ call.out.base_score =
         (IF "soil" \in Failed THEN 0 ELSE 1) + (IF "rain" \in Failed THEN 0 ELSE 2)
         + (IF "temp" \in Failed THEN 0 ELSE 1) + (IF "slope" \in Failed THEN 0 ELSE 1)

\* C2 witness: only the rainfall criterion failed and the base score is 3
C2_Witness == Scored /\ Failed = {"rain"} /\ call.out.base_score = 3

\* C3 (as stated): when a requirement is present, its criterion passes iff
\* its pass condition holds -- soil equal to the stripped requirement,
\* rainfall and temperature within [min,max], slope <= max
C3_PassIffCondition ==
  (Scored /\ EnglishOnly) =>
    /\ (call.row.soil_type.t = "str" /\ call.row.soil_type.s # "") =>
         ("soil" \notin Failed <=> call.env.soil_type = Strip(call.row.soil_type.s))
    /\ (call.row.min_rain_mm.t = "num" /\ call.row.max_rain_mm.t = "num") =>
         ("rain" \notin Failed <=>
            /\ call.row.min_rain_mm.n * Grid <= call.env.avg_rainfall_mm
            /\ call.env.avg_rainfall_mm <= call.row.max_rain_mm.n * Grid)
    /\ (call.row.min_temp_c.t = "num" /\ call.row.max_temp_c.t = "num") =>
         ("temp" \notin Failed <=>
            /\ call.row.min_temp_c.n * Grid <= call.env.avg_temp_celsius
            /\ call.env.avg_temp_celsius <= call.row.max_temp_c.n * Grid)
    /\ (call.row.slope_max_deg.t = "num") =>
         ("slope" \notin Failed <=> call.env.slope_degree <= call.row.slope_max_deg.n * Grid)

\* C4 (as stated): a criterion whose requirement is left unset contributes
\* its full weight and adds no reason
C4_UnsetAlwaysPasses ==
  Scored =>
    /\ Unset(Field("soil_type", "th_soil_type")) => "soil" \notin Failed
    /\ (Unset(Field("min_rain_mm", "th_min_rain")) /\ Unset(Field("max_rain_mm", "th_max_rain")))
         => "rain" \notin Failed
    /\ (Unset(Field("min_temp_c", "th_min_temp")) /\ Unset(Field("max_temp_c", "th_max_temp")))
         => "temp" \notin Failed
    /\ Unset(Field("slope_max_deg", "th_slope_max")) => "slope" \notin Failed

\* C5: the reasons list is empty iff the base score is 5 (every criterion
\* passed), and the record carries that list unchanged whatever the jitter
C5_ReasonsEmptyIffAllPassed ==
  /\ Scored => (call.out.reasons = <<>> <=> call.out.base_score = 5)
  /\ Returned => call.out.record.reasons_for_low_score = call.out.reasons

\* C5 witness: the jitter moved the score off a base of 5 and the record has
\* no reasons
C5_Witness ==
  /\ Returned
  /\ call.out.base_score = 5
  /\ call.out.record.suitability_score < 5
  /\ call.out.record.reasons_for_low_score = <<>>

\* C6: the returned list is ordered by suitability_score descending, and
\* records of equal score keep the order of their rows
C6_SortedStable ==
  Ranked =>
    /\ \A i \in 1..(Len(request.built.recs) - 1) :
         request.built.recs[i].suitability_score >= request.built.recs[i + 1].suitability_score
    /\ \A v \in 0..5 : ScoreIs(v, request.built.recs) = ScoreIs(v, request.built.scored)

\* C6 witness: the sort moved a record, and two different records tie
C6_Witness ==
  /\ Ranked
  /\ request.built.recs # request.built.scored
  /\ \E i \in 1..(Len(request.built.recs) - 1) :
       /\ request.built.recs[i].suitability_score = request.built.recs[i + 1].suitability_score
       /\ request.built.recs[i] # request.built.recs[i + 1]

\* C7 (as stated): two calls of mock_env_from_polygon with the same
\* descriptor yield the same profile, on every call and in every run
C7_SameDescriptorSameProfile ==
  (request.served /\ seen.any /\ request.polygon = seen.polygon) => request.env = seen.env

\* C8: the final score is one of max(0, base-2), max(0, base-1), base,
\* min(5, base+1), so base-2 <= final <= base+1
C8_JitterBounded ==
  Returned =>
    LET b == call.out.base_score
        f == call.out.record.suitability_score
    IN  /\ f \in {max(0, b - 2), max(0, b - 1), b, min(5, b + 1)}
        /\ b - 2 <= f
        /\ f <= b + 1

\* C8 witnesses: the score is raised by 1, and lowered by 2
C8_Witness ==
  /\ Returned
  /\ call.out.record.suitability_score = call.out.base_score + 1

C8_Witness_Down ==
  /\ Returned
  /\ call.out.record.suitability_score = call.out.base_score - 2

\* C9: a record with a score of at most 2 has an advice made of all of its
\* reasons, in order and at least one, and one tip of IMPROVEMENT_TIPS; no
\* tip is substituted for an empty reasons list
C9_LowAdviceUsesReasons ==
  (Returned /\ call.out.record.suitability_score <= 2) =>
    /\ call.out.base_score <= 4
    /\ call.out.record.advice.band = "low"
    /\ call.out.record.advice.picked = call.out.reasons
    /\ Len(call.out.record.advice.picked) >= 1
    /\ \A i \in DOMAIN call.out.record.advice.picked :
         call.out.record.advice.picked[i].criterion # "tip"
    /\ call.out.record.advice.tip \in Range(IMPROVEMENT_TIPS)

\* C9 witness: a base score of 4 is lowered to 2
C9_Witness ==
  /\ Returned
  /\ call.out.base_score = 4
  /\ call.out.record.suitability_score = 2
  /\ call.out.record.advice.band = "low"

\* C10 (as stated): build_recommendations does not raise and returns one
\* record per fallback crop when the table is empty, one per row otherwise
C10_OneRecordPerRow ==
  request.served =>
    /\ ~request.built.raised
    /\ Len(request.built.recs) = (IF CROP_DB = <<>> THEN 5 ELSE Len(CROP_DB))

====
